---------------------------- MODULE Spec2Model ----------------------------
(***************************************************************************)
(* Model of the Amazon product media scraper                               *)
(* (src/Scraping Script/amazon_product_scraper.py).                        *)
(*                                                                         *)
(* URLs are sequences of tokens: every token stands for the piece of text  *)
(* one of the scraper's regular expressions or substring tests looks at    *)
(* (scheme, CDN path, size suffix, blocklisted path segment, extension,    *)
(* JSON debris).  A regular expression becomes the same test on tokens.    *)
(***************************************************************************)
EXTENDS Integers, Sequences, FiniteSets, TLC

VARIABLES
    cfg,                \* scraper configuration: max_images, max_videos
    pc,                 \* position of the run
    todo,               \* products of the catalog not yet processed
    product,            \* the product dict being processed
    asin,               \* resolved identifier of the current product
    html,               \* <<page>> returned by get_product_page, <<>> for None
    image_urls,         \* process_product's image_urls
    video_urls,         \* process_product's video_urls
    idx,                \* enumerate() index of the running download loop
    attempt,            \* download_file's retry loop variable
    result,             \* process_product's result dict
    results,            \* scrape_products' results list
    downloaded_hashes,  \* AmazonProductScraper.downloaded_hashes
    files,              \* media files on disk: <<asin, kind, idx>> -> content
    metadata,           \* metadata.json per product directory: images_count
    report,             \* <<report>> once the report file is written
    calls,              \* history: download_file calls of the current product
    last_fail,          \* history: what the latest failed attempt of the running download_file raised
    sleeps,             \* history: backoff sleeps of the running download_file
    saves,              \* history: successful download_file returns per content
    since_ok,           \* history: seconds slept since the last answered request
    ex_page,            \* SpecExtract: page content handed to the extractor
    ex_out,             \* SpecExtract: the lists returned so far, one per call
    b_args,             \* BatchScraper: batch_size, rate_limit, resume_from, catalog size
    batch_files,        \* BatchScraper.run: the chunks split_products wrote
    batch_num,          \* BatchScraper.run: enumerate() index of the chunk loop
    successful_batches, \* BatchScraper.run
    failed_batches,     \* BatchScraper.run
    summary,            \* <<summary>> once BatchScraper.run has returned one
    b_log,              \* history: scrape_batch calls and waits of the batch run
    settings,           \* synthesize_speech: tts_prefer_gtts, enable_eleven_labs, eleven_labs_api_key
    tts_pc,             \* synthesize_speech: position of the handler
    mcp_result,         \* synthesize_speech: result and mcp_error after the MCP call
    audio_data_bytes,   \* synthesize_speech: None, or the bytes a provider returned
    tts_response,       \* synthesize_speech: <<response>> once the handler has answered
    tts_called,         \* history: the providers called, with what each returned
    dm_catalog,         \* download_missing_images: asin of every record of products-simple.json
    dm_files,           \* download_missing_images: image_01 files under product_media
    dm_pc,              \* download_missing_images: position of main
    products_needing_images, \* download_missing_images.main
    dm_idx,             \* download_missing_images.main: enumerate() index of the download loop
    dm_counts,          \* download_missing_images.main: success_count, fail_count
    dm_run,             \* history: how many times the script has been started
    dm_failed           \* history: products whose latest download_image call returned False

vars == <<cfg, pc, todo, product, asin, html, image_urls, video_urls, idx,
          attempt, result, results, downloaded_hashes, files, metadata, report,
          calls, last_fail, sleeps, saves, since_ok, ex_page, ex_out,
          b_args, batch_files, batch_num, successful_batches, failed_batches,
          summary, b_log, settings, tts_pc, mcp_result, audio_data_bytes,
          tts_response, tts_called, dm_catalog, dm_files, dm_pc,
          products_needing_images, dm_idx, dm_counts, dm_run, dm_failed>>

None == "None"

(***************************************************************************)
(* Bounds of the model                                                     *)
(***************************************************************************)
MaxProducts == 2        \* products in the catalog
MaxImagesCap == 2       \* largest --max-images tried
MaxVideosCap == 1       \* largest --max-videos tried
MaxPageUrls == 2        \* URL occurrences on one page under SpecExtract
MaxBatchProducts == 4   \* products in the catalog of a batch run
MaxBatchSize == 2       \* largest --batch-size tried
MaxResumeFrom == 4      \* largest --resume-from tried
MaxMissingProducts == 2 \* records in the catalog of download_missing_images
MaxRuns == 2            \* runs of download_missing_images on the same directories

(***************************************************************************)
(* Token helpers                                                           *)
(***************************************************************************)
Min(a, b) == IF a <= b THEN a ELSE b

HasTok(url, tok) == \E i \in 1..Len(url) : url[i] = tok

\* s[:n]
TakeFirst(s, n) == SubSeq(s, 1, Min(n, Len(s)))

\* str.lower() / re.IGNORECASE on the tokens that have an upper-case spelling
Lower(tok) ==
    CASE tok = "._AC_SL1500_" -> "._ac_sl1500_"
      [] tok = "._AC_SL1000_" -> "._ac_sl1000_"
      [] tok = "._AC_SL750_"  -> "._ac_sl750_"
      [] tok = "._AC_SL500_"  -> "._ac_sl500_"
      [] tok = "._AC_SL300_"  -> "._ac_sl300_"
      [] tok = "/Related/"    -> "/related/"
      [] tok = "m.media-amazon.com/images/I/" -> "m.media-amazon.com/images/i/"
      [] tok = "m.media-amazon.com/images/G/" -> "m.media-amazon.com/images/g/"
      [] OTHER -> tok


(***************************************************************************)
(* Raw candidate URLs a page can carry                                     *)
(***************************************************************************)
Https == "https://"
CdnI == "m.media-amazon.com/images/I/"
CdnG == "m.media-amazon.com/images/G/"
MAX_SIZE == "._AC_SL1500_"

U_a1500 == <<Https, CdnI, "a", "._AC_SL1500_", ".jpg">>
U_a500 == <<Https, CdnI, "a", "._AC_SL500_", ".jpg">>
U_b1000 == <<Https, CdnI, "b", "._AC_SL1000_", ".jpg", ",", "junk">>
U_c750 == <<Https, CdnI, "c", "._AC_SL750_", ".jpg">>
U_related == <<Https, CdnI, "/Related/", "d", "._AC_SL500_", ".jpg">>
U_reviews == <<Https, CdnI, "e", "community-reviews", "._AC_SL1000_", ".jpg">>
U_lower == <<Https, CdnI, "f", "._ac_sl500_", ".jpg">>
U_sprite == <<Https, CdnG, "g", "._AC_SL1500_", ".jpg">>
U_thumb == <<Https, CdnI, "h", "._AC_SL300_", ".jpg">>

RawUrls ==
    {U_a1500, U_a500, U_b1000, U_c750, U_related, U_reviews, U_lower,
     U_sprite, U_thumb}

(***************************************************************************)
(* extract_image_urls_from_html: the clean-up loop, lines 249-321          *)
(***************************************************************************)
\* excluded_patterns (searched with re.IGNORECASE), lower-case spelling;
\* a \d+ pattern is listed with one digit string
excluded_patterns ==
    {"/related/", "/recommended/", "/sponsored/", "/similar/", "/frequently/",
     "/customer/", "/review/", "community-reviews", "aplus-media-library",
     "community-customer-media", "_uc100", "__cr100", "__pt100", "__ac_uc",
     "__ac_sr100", "__ac_uf100", "related-products", "recommended-products",
     "sponsored-products", "also-viewed", "frequently-bought", "__ac_sy100",
     "__ac_sx100", "__ac_sz100", "__ac_ss100"}

\* main_product_patterns (searched with re.IGNORECASE): the size suffix
main_product_sizes ==
    {"._ac_sl1500_", "._ac_sl1000_", "._ac_sl750_", "._ac_sl500_"}

\* tokens that end the URL part for r'(https://[^",\s}]+\.jpg)'
UrlStop == {"\"", ",", " ", "}"}

\* tokens from which re.sub(r'["\',].*$', '', url) cuts
QuoteComma == {"\"", "'", ","}

\* the matches of r'(https://[^",\s}]+\.jpg)' in url, as <<first, last>>
JpgSpans(url) ==
    {sp \in (1..Len(url)) \X (1..Len(url)) :
        /\ url[sp[1]] = Https
        /\ sp[2] >= sp[1] + 2
        /\ url[sp[2]] = ".jpg"
        /\ \A k \in (sp[1] + 1)..sp[2] : url[k] \notin UrlStop}

\* re.search: leftmost start, and from it the longest match
FirstJpgSpan(url) ==
    CHOOSE sp \in JpgSpans(url) :
        \A other \in JpgSpans(url) :
            \/ sp[1] < other[1]
            \/ sp[1] = other[1] /\ sp[2] >= other[2]

\* url.strip('"').strip(): quotes, then blanks, off both ends
RECURSIVE StripEnds(_, _)
StripEnds(url, junk) ==
    IF url = <<>> THEN url
    ELSE IF url[1] \in junk THEN StripEnds(Tail(url), junk)
    ELSE IF url[Len(url)] \in junk THEN StripEnds(SubSeq(url, 1, Len(url) - 1), junk)
    ELSE url

StripQuotes(url) == StripEnds(StripEnds(url, {"\""}), {" "})

\* re.sub(r'["\',].*$', '', url)
CutAtQuote(url) ==
    IF \E i \in 1..Len(url) : url[i] \in QuoteComma
    THEN LET first == CHOOSE i \in 1..Len(url) :
                          /\ url[i] \in QuoteComma
                          /\ \A k \in 1..(i - 1) : url[k] \notin QuoteComma
         IN SubSeq(url, 1, first - 1)
    ELSE url

\* lines 293-301: the URL part of a raw candidate
CleanUrl(raw) ==
    LET picked == IF JpgSpans(raw) # {}
                  THEN SubSeq(raw, FirstJpgSpan(raw)[1], FirstJpgSpan(raw)[2])
                  ELSE StripQuotes(raw)
    IN StripQuotes(CutAtQuote(picked))

\* line 304: any(re.search(pattern, url, re.IGNORECASE) for pattern in excluded_patterns)
IsExcluded(url) == \E i \in 1..Len(url) : Lower(url[i]) \in excluded_patterns

\* line 308: re.search(r'\.media-amazon\.com/images/I/', url, re.IGNORECASE)
IsProductCdn(url) == \E i \in 1..Len(url) : Lower(url[i]) = Lower(CdnI)

\* line 313: any(re.search(pattern, url, re.IGNORECASE) for pattern in main_product_patterns)
IsMainProductImage(url) ==
    \E i \in 1..(Len(url) - 1) :
        /\ Lower(url[i]) \in main_product_sizes
        /\ Lower(url[i + 1]) = ".jpg"

\* the r'_AC_SL\d+_' tokens (case-sensitive)
SizeTokens ==
    {"._AC_SL1500_", "._AC_SL1000_", "._AC_SL750_", "._AC_SL500_", "._AC_SL300_"}

IsSizeToken(tok) == tok \in SizeTokens

\* lines 319-320 and 504-505:
\*   if '._AC_SL' in url: url = re.sub(r'_AC_SL\d+_', '_AC_SL1500_', url)
Upgrade(url) ==
    IF \E i \in 1..Len(url) : IsSizeToken(url[i])
    THEN [i \in 1..Len(url) |-> IF IsSizeToken(url[i]) THEN MAX_SIZE ELSE url[i]]
    ELSE url

\* lines 315-317: the shape test before a URL is kept
IsCleanJpg(url) ==
    /\ url # <<>>
    /\ url[1] = Https
    /\ \E i \in 1..Len(url) : Lower(url[i]) = ".jpg"
    /\ \A i \in 1..Len(url) : url[i] \notin {"\"", "{", "}"}

\* lines 303-317: whether the cleaned URL passes every test
AcceptsNoBlocklist(url) ==
    /\ IsProductCdn(url)
    /\ IsMainProductImage(url)
    /\ IsCleanJpg(url)

Accepts(url) ==
    /\ ~IsExcluded(url)
    /\ IsProductCdn(url)
    /\ IsMainProductImage(url)
    /\ IsCleanJpg(url)

\* lines 290-321: clean_urls built from image_urls
CleanUrls(found) ==
    {Upgrade(CleanUrl(raw)) : raw \in {r \in found : Accepts(CleanUrl(r))}}


(***************************************************************************)
(* extract_image_urls_from_html: the extraction methods, lines 135-247     *)
(* A page is what each method's regular expressions find in it.            *)
(***************************************************************************)
Tiers == {"scoped", "broad", "dom", "landing", "proximity", "block"}

\* Method 5's fallback_pattern only matches a bare CDN URL with a size suffix
IsFallbackShape(url) ==
    /\ Len(url) >= 4
    /\ url[1] = Https
    /\ url[2] = CdnI
    /\ IsSizeToken(url[Len(url) - 1])
    /\ url[Len(url)] = ".jpg"

TierUrls(tier) ==
    IF tier = "block" THEN {u \in RawUrls : IsFallbackShape(u)} ELSE RawUrls

Occurrences == UNION {{<<t, u>> : u \in TierUrls(t)} : t \in Tiers}

\* the subsets of S with at most n elements
RECURSIVE UpTo(_, _)
UpTo(S, n) ==
    IF n = 0 THEN {{}}
    ELSE LET smaller == UpTo(S, n - 1)
         IN smaller \cup {T \cup {x} : T \in smaller, x \in S}

PageOf(occ) == [t \in Tiers |-> {u \in RawUrls : <<t, u>> \in occ}]

Pages == {PageOf(occ) : occ \in UpTo(Occurrences, MaxPageUrls)}

AllTierUrls(page) == UNION {page[t] : t \in Tiers}

\* lines 135-247: image_urls after the five methods
FoundUrlsNoBlock(page) ==
    LET m1 == page["scoped"]
        m1b == IF m1 = {} THEN page["broad"] ELSE m1
    IN m1b \cup page["dom"] \cup page["landing"] \cup page["proximity"]

FoundUrls(page) ==
    LET m1 == page["scoped"]
        m1b == IF m1 = {} THEN page["broad"] ELSE m1
        m4 == m1b \cup page["dom"] \cup page["landing"] \cup page["proximity"]
    IN IF m4 = {} THEN page["block"] ELSE m4

\* get_resolution_priority, lines 326-337
get_resolution_priority(url) ==
    IF HasTok(url, "._AC_SL1500_") THEN 0
    ELSE IF HasTok(url, "._AC_SL1000_") THEN 1
    ELSE IF HasTok(url, "._AC_SL750_") THEN 2
    ELSE IF HasTok(url, "._AC_SL500_") THEN 3
    ELSE 999

\* list(clean_urls): a set is listed in an order the hash seed decides
RECURSIVE Orderings(_)
Orderings(S) ==
    IF S = {} THEN {<<>>}
    ELSE UNION {{<<x>> \o rest : rest \in Orderings(S \ {x})} : x \in S}

\* clean_urls_list.sort(key=get_resolution_priority): stable, ascending
SortedLists(S) ==
    {o \in Orderings(S) :
        \A i \in 1..Len(o), j \in 1..Len(o) :
            i < j => get_resolution_priority(o[i]) <= get_resolution_priority(o[j])}

\* lines 118-345: the lists extract_image_urls_from_html can return
ExtractOutputs(page, max_images) ==
    {TakeFirst(o, max_images) : o \in SortedLists(CleanUrls(FoundUrls(page)))}

Range(s) == {s[i] : i \in 1..Len(s)}


(***************************************************************************)
(* extract_video_urls_from_html, lines 347-404                             *)
(***************************************************************************)
V_main == <<Https, "video.example.com/main", ".mp4">>
V_demo == <<Https, "video.example.com/demo", ".mp4", ",", "junk">>
V_short == <<Https, ".mp4">>

\* re.sub(r'["\',}].*$', '', url)
CutAtQuoteBrace(url) ==
    IF \E i \in 1..Len(url) : url[i] \in QuoteComma \cup {"}"}
    THEN LET first == CHOOSE i \in 1..Len(url) :
                          /\ url[i] \in QuoteComma \cup {"}"}
                          /\ \A k \in 1..(i - 1) : url[k] \notin QuoteComma \cup {"}"}
         IN SubSeq(url, 1, first - 1)
    ELSE url

\* len(): characters of a video URL
TokLen(tok) ==
    CASE tok = Https -> 8
      [] tok = ".mp4" -> 4
      [] tok = "video.example.com/main" -> 22
      [] tok = "video.example.com/demo" -> 22
      [] OTHER -> 1

RECURSIVE CharLen(_)
CharLen(url) == IF url = <<>> THEN 0 ELSE TokLen(url[1]) + CharLen(Tail(url))

\* the matches of r'(https://[^",\s}]+\.(?:mp4|webm|mov))', as <<first, last>>
VideoSpans(url) ==
    {sp \in (1..Len(url)) \X (1..Len(url)) :
        /\ url[sp[1]] = Https
        /\ sp[2] >= sp[1] + 2
        /\ url[sp[2]] \in {".mp4", ".webm", ".mov"}
        /\ \A k \in (sp[1] + 1)..sp[2] : url[k] \notin UrlStop}

\* lines 383-399: the clean URLs one raw match leaves in clean_urls
CleanVideo(raw) ==
    IF VideoSpans(raw) # {}
    THEN LET sp == CHOOSE x \in VideoSpans(raw) :
                       \A o \in VideoSpans(raw) :
                           x[1] < o[1] \/ (x[1] = o[1] /\ x[2] >= o[2])
             clean == SubSeq(raw, sp[1], sp[2])
         IN IF clean[1] = Https /\ CharLen(clean) > 20 THEN {clean} ELSE {}
    ELSE LET url == CutAtQuoteBrace(StripQuotes(raw))
         IN IF url # <<>> /\ url[1] = Https
               /\ \E i \in 1..Len(url) : url[i] \in {".mp4", ".webm", ".mov"}
            THEN {url} ELSE {}

\* lines 362-404: the lists extract_video_urls_from_html can return
ExtractVideoOutputs(found) == Orderings(UNION {CleanVideo(raw) : raw \in found})

\* lines 543-549: the video URL process_product downloads, <<>> when it is skipped
clean_video_url(video_url) ==
    LET clean == StripQuotes(CutAtQuoteBrace(video_url))
    IN IF CharLen(clean) < 20 \/ clean = <<>> \/ clean[1] # Https THEN <<>> ELSE clean

(***************************************************************************)
(* The run: inputs                                                         *)
(***************************************************************************)
MAX_RETRIES == 3
RATE_LIMIT == 2

Contents == {"bytesA", "bytesB"}

\* hashlib.md5(response.content).hexdigest()
md5(content) == <<"md5", content>>

\* quick_image_fetcher.py, line 160: a saved file under 1000 bytes is removed
SIZE_THRESHOLD == 1000

\* line 425: int(response.headers.get('content-length', 0)) of an answer that
\* carries these bytes: a full image, or a short error page sent with status 200
SizeOf(content) == IF content = "bytesA" THEN 20480 ELSE 512

F_good == <<Https, CdnI, "a", "._AC_SL500_", ".jpg">>
F_nosize == <<Https, CdnI, "a", ".jpg">>
F_lower == <<Https, CdnI, "a", "._ac_sl500_", ".jpg">>

\* product dicts of the catalog: asin, the ASIN in url's /dp/ part, image_url
\* (<<>> when the record has none)
Products ==
    {[asin |-> "P1", url_dp |-> "P1", image_url |-> F_good],
     [asin |-> None, url_dp |-> "P2", image_url |-> <<>>],
     [asin |-> None, url_dp |-> None, image_url |-> F_good],
     [asin |-> "P1", url_dp |-> "P1", image_url |-> F_nosize],
     [asin |-> "P2", url_dp |-> "P2", image_url |-> F_lower]}

\* extract_asin_from_url, lines 93-96
extract_asin_from_url(p) == p.url_dp

\* pages the host can answer with: what the image methods find, and the raw video matches
EmptyPage == [images |-> PageOf({}), videos |-> {}]
GalleryPage ==
    [images |-> PageOf({<<"scoped", U_a500>>, <<"scoped", U_b1000>>,
                        <<"dom", U_a1500>>, <<"dom", U_related>>}),
     videos |-> {V_main, V_short}]
BlockPage == [images |-> PageOf({<<"block", U_a500>>}), videos |-> {V_demo}]

RunPages == {EmptyPage, GalleryPage, BlockPage}

\* what a failing session.get / raise_for_status / body read raises (requests.RequestException)
FailKinds == {"timeout", "http404", "http429", "http500"}

Cfgs == [max_images : 0..MaxImagesCap, max_videos : 0..MaxVideosCap]

NoProduct == [asin |-> None, url_dp |-> None, image_url |-> <<>>]

NewResult(p) ==
    [asin |-> IF p.asin = None THEN "Unknown" ELSE p.asin,
     images_downloaded |-> 0, videos_downloaded |-> 0, errors |-> <<>>]


\* the batch runner's variables while no batch run is modelled
BatchIdle ==
    /\ b_args = [batch_size |-> 1, rate_limit |-> RATE_LIMIT, resume_from |-> 1, products |-> 0]
    /\ batch_files = <<>>
    /\ batch_num = 1
    /\ successful_batches = 0
    /\ failed_batches = <<>>
    /\ summary = <<>>
    /\ b_log = <<>>

\* the speech handler's variables while no request is modelled
SpeechIdle ==
    /\ settings = [tts_prefer_gtts |-> TRUE, enable_eleven_labs |-> FALSE,
                   eleven_labs_api_key |-> FALSE]
    /\ tts_pc = "idle"
    /\ mcp_result = [result |-> "dict", error |-> FALSE, mcp_error |-> FALSE]
    /\ audio_data_bytes = None
    /\ tts_response = <<>>
    /\ tts_called = <<>>

\* the variables of download_missing_images.py while it is not modelled
MissingIdle ==
    /\ dm_catalog = <<>>
    /\ dm_files = {}
    /\ dm_pc = "idle"
    /\ products_needing_images = <<>>
    /\ dm_idx = 1
    /\ dm_counts = [success_count |-> 0, fail_count |-> 0]
    /\ dm_run = 0
    /\ dm_failed = {}

(***************************************************************************)
(* scrape_products and process_product                                     *)
(***************************************************************************)
Init ==
    /\ cfg \in Cfgs
    /\ pc = "load"
    /\ todo = 0
    /\ product = NoProduct
    /\ asin = None
    /\ html = <<>>
    /\ image_urls = <<>>
    /\ video_urls = <<>>
    /\ idx = 1
    /\ attempt = 0
    /\ result = NewResult(NoProduct)
    /\ results = <<>>
    /\ downloaded_hashes = {}
    /\ files = {}
    /\ metadata = {}
    /\ report = <<>>
    /\ calls = <<>>
    /\ last_fail = None
    /\ sleeps = <<>>
    /\ saves = [c \in Contents |-> 0]
    /\ since_ok = RATE_LIMIT
    /\ ex_page = PageOf({})
    /\ ex_out = <<>>
    /\ BatchIdle
    /\ SpeechIdle
    /\ MissingIdle

batchVars == <<b_args, batch_files, batch_num, successful_batches, failed_batches,
               summary, b_log>>
speechVars == <<settings, tts_pc, mcp_result, audio_data_bytes, tts_response, tts_called>>
missingVars == <<dm_catalog, dm_files, dm_pc, products_needing_images, dm_idx, dm_counts,
                 dm_run, dm_failed>>
runVars == <<cfg, ex_page, ex_out, batchVars, speechVars, missingVars>>
loopVars == <<image_urls, video_urls, idx, attempt, calls, last_fail, sleeps>>
diskVars == <<downloaded_hashes, files, metadata, saves>>
netVars == <<since_ok>>

\* scrape_products, lines 596-603: the catalog is loaded
LoadCatalog(n) ==
    /\ pc = "load"
    /\ todo' = n
    /\ pc' = "next"
    /\ UNCHANGED <<product, asin, html, result, results, report>>
    /\ UNCHANGED <<runVars, loopVars, diskVars, netVars>>

\* scrape_products, lines 599-601: json.load fails, [] is returned to main
LoadFails ==
    /\ pc = "load"
    /\ pc' = "report"
    /\ UNCHANGED <<todo, product, asin, html, result, results, report>>
    /\ UNCHANGED <<runVars, loopVars, diskVars, netVars>>

\* process_product, lines 466-479: no identifier, the product ends here
ProductNoAsin(p) ==
    /\ pc = "next"
    /\ todo > 0
    /\ p.asin = None
    /\ extract_asin_from_url(p) = None
    /\ results' = Append(results,
           [NewResult(p) EXCEPT !.errors = <<"Could not extract ASIN from URL">>])
    /\ todo' = todo - 1
    /\ UNCHANGED <<pc, product, asin, html, result, report>>
    /\ UNCHANGED <<runVars, loopVars, diskVars, netVars>>

\* line 476: asin = product.get('asin') or self.extract_asin_from_url(...)
ResolveAsinOrUnknown(p) ==
    IF p.asin # None THEN p.asin
    ELSE IF extract_asin_from_url(p) # None THEN extract_asin_from_url(p)
    ELSE "Unknown"

ResolveAsin(p) == IF p.asin # None THEN p.asin ELSE extract_asin_from_url(p)

\* process_product, lines 466-485: identifier resolved, product directory made
BeginProduct(p) ==
    /\ pc = "next"
    /\ todo > 0
    /\ ResolveAsin(p) # None
    /\ product' = p
    /\ asin' = ResolveAsin(p)
    /\ result' = [NewResult(p) EXCEPT !.asin = ResolveAsin(p)]
    /\ html' = <<>>
    /\ image_urls' = <<>>
    /\ video_urls' = <<>>
    /\ idx' = 1
    /\ attempt' = 0
    /\ calls' = <<>>
    /\ last_fail' = None
    /\ sleeps' = <<>>
    /\ pc' = "fetch"
    /\ UNCHANGED <<todo, results, report, runVars, diskVars, netVars>>

\* process_product, line 485: product_dir.mkdir raises, nothing catches it
MkdirFails(p) ==
    /\ pc = "next"
    /\ todo > 0
    /\ ResolveAsin(p) # None
    /\ pc' = "crashed"
    /\ UNCHANGED <<todo, product, asin, html, result, results, report>>
    /\ UNCHANGED <<runVars, loopVars, diskVars, netVars>>

\* line 502: re.search(r'\._AC_SL\d+_\.jpg', fallback_url, re.IGNORECASE)
HasSizePattern(url) ==
    \E i \in 1..(Len(url) - 1) :
        /\ Lower(url[i]) \in {Lower(t) : t \in SizeTokens}
        /\ Lower(url[i + 1]) = ".jpg"

\* lines 499-506: what the fallback image_url adds to an empty image_urls
FallbackUrls(p) ==
    IF p.image_url # <<>> /\ HasSizePattern(p.image_url)
    THEN <<Upgrade(p.image_url)>>
    ELSE <<>>

\* lines 489-510: image_urls from the extracted list, the fallback and the cap
ImageCandidatesNoFallback(extracted, p, max_images) == TakeFirst(extracted, max_images)

ImageCandidates(extracted, p, max_images) ==
    TakeFirst(IF Len(extracted) = 0 THEN FallbackUrls(p) ELSE extracted, max_images)

\* the host has answered a request: the seconds slept since then start again,
\* at time.sleep(self.rate_limit) where the code path has it (lines 112, 444)
Answered(slept_after) ==
    since_ok' = IF slept_after THEN RATE_LIMIT ELSE 0

\* get_product_page answers (lines 108-113) and the images are extracted (493)
FetchPageOk(page) ==
    /\ pc = "fetch"
    /\ html' = <<page>>
    /\ Answered(TRUE)
    /\ \E extracted \in ExtractOutputs(page.images, cfg.max_images) :
           image_urls' = ImageCandidates(extracted, product, cfg.max_images)
    /\ idx' = 1
    /\ pc' = "images"
    /\ UNCHANGED <<todo, product, asin, result, results, report, runVars, diskVars>>
    /\ UNCHANGED <<video_urls, attempt, calls, last_fail, sleeps>>

\* get_product_page fails (lines 114-116), the error is noted (495)
FetchPageFailsAborts ==
    /\ pc = "fetch"
    /\ results' = Append(results, [result EXCEPT !.errors =
                     Append(@, "Failed to fetch product page (will try fallback)")])
    /\ todo' = todo - 1
    /\ pc' = "next"
    /\ UNCHANGED <<product, asin, html, result, report, runVars, loopVars, diskVars, netVars>>

FetchPageFails ==
    /\ pc = "fetch"
    /\ html' = <<>>
    /\ result' = [result EXCEPT !.errors =
                     Append(@, "Failed to fetch product page (will try fallback)")]
    /\ image_urls' = ImageCandidates(<<>>, product, cfg.max_images)
    /\ idx' = 1
    /\ pc' = "images"
    /\ UNCHANGED <<todo, product, asin, results, report, runVars, diskVars, netVars>>
    /\ UNCHANGED <<video_urls, attempt, calls, last_fail, sleeps>>


(***************************************************************************)
(* The download loops of process_product and download_file's retry loop    *)
(***************************************************************************)
Kind == IF pc = "images" THEN "image" ELSE "video"

Downloaded == IF pc = "images" THEN result.images_downloaded ELSE result.videos_downloaded

Limit == IF pc = "images" THEN cfg.max_images ELSE cfg.max_videos

Candidates == IF pc = "images" THEN image_urls ELSE video_urls

\* the URL handed to download_file in this iteration, <<>> for a skipped video
\* (lines 513-521, 535-562)
CurUrl ==
    IF pc = "images" THEN image_urls[idx] ELSE clean_video_url(video_urls[idx])

\* lines 513-517 and 535-539: the loop has an item and the limit is not reached
LoopRuns ==
    /\ pc \in {"images", "videos"}
    /\ idx <= Len(Candidates)
    /\ Downloaded < Limit

\* lines 522 and 563: result[...] += 1
BumpTwice(n) == n + 2

Bump(n) == n + 1

Counted(r) ==
    IF pc = "images"
    THEN [r EXCEPT !.images_downloaded = Bump(@)]
    ELSE [r EXCEPT !.videos_downloaded = Bump(@)]

\* lines 523-524 and 564-565: the except clause of the loop body
Noted(r) ==
    [r EXCEPT !.errors = Append(@, IF pc = "images" THEN "Image error" ELSE "Video error")]

\* the file path of the running loop iteration (lines 520, 561)
CurPathByCount == <<asin, Kind, Downloaded + 1>>

CurPath == <<asin, Kind, idx>>

\* download_file has returned (or raised) and the loop goes to its next item
Returned(how, slept) ==
    /\ calls' = Append(calls, [path |-> CurPath, url |-> CurUrl, how |-> how,
                               attempts |-> IF how = "exhausted" THEN attempt + 1 ELSE 0,
                               sleeps |-> slept])
    /\ result' = CASE how = "saved" -> Counted(result)
                   [] how \in {"write_error", "uncaught"} -> Noted(result)
                   [] OTHER -> result
    /\ idx' = idx + 1
    /\ attempt' = 0
    /\ last_fail' = None
    /\ sleeps' = <<>>
    /\ UNCHANGED <<pc, todo, product, asin, html, image_urls, video_urls, results,
                   report, runVars>>

\* line 450: time.sleep(2 ** attempt)
BackoffFixed(n) == 1

Backoff(n) == 2 ^ n

\* line 447: except requests.RequestException catches every failure of the request,
\* a 4xx or 5xx status from raise_for_status included
CaughtUnless4xx(kind) == kind \in FailKinds \ {"http404"}

Caught(kind) == kind \in FailKinds

\* lines 419-422, 447-451: session.get or raise_for_status raises, another attempt follows
AttemptRetried(kind) ==
    /\ LoopRuns
    /\ CurUrl # <<>>
    /\ Caught(kind)
    /\ attempt < MAX_RETRIES - 1
    /\ last_fail' = kind
    /\ sleeps' = Append(sleeps, Backoff(attempt))
    /\ since_ok' = Min(RATE_LIMIT, since_ok + Backoff(attempt))
    /\ attempt' = attempt + 1
    /\ UNCHANGED <<pc, todo, product, asin, html, image_urls, video_urls, idx, result,
                   results, report, calls, runVars, diskVars>>

\* lines 447-454: the last attempt raises, download_file returns False
\* (what the except clause does not catch goes up to process_product)
AttemptExhausted(kind) ==
    /\ LoopRuns
    /\ CurUrl # <<>>
    /\ attempt >= MAX_RETRIES - 1 \/ ~Caught(kind)
    /\ Returned(IF Caught(kind) THEN "exhausted" ELSE "uncaught", sleeps)
    /\ UNCHANGED <<diskVars, netVars>>

\* lines 425-428: the host answers, content-length is 0 or missing
AttemptZeroLength ==
    /\ LoopRuns
    /\ CurUrl # <<>>
    /\ Answered(FALSE)
    /\ Returned("zero", <<>>)
    /\ UNCHANGED diskVars

\* lines 430-434: the host answers with bytes already seen in this run
AttemptDuplicate(content) ==
    /\ LoopRuns
    /\ CurUrl # <<>>
    /\ md5(content) \in downloaded_hashes
    /\ Answered(FALSE)
    /\ Returned("duplicate", <<>>)
    /\ UNCHANGED diskVars

Written(content) ==
    {f \in files : f.path # CurPath} \cup {[path |-> CurPath, content |-> content]}

\* lines 430-445: new bytes, the hash is remembered, the file is written, True
AttemptSavedForgets(content) ==
    /\ LoopRuns
    /\ CurUrl # <<>>
    /\ md5(content) \notin downloaded_hashes
    /\ files' = Written(content)
    /\ saves' = [saves EXCEPT ![content] = @ + 1]
    /\ Answered(TRUE)
    /\ Returned("saved", <<>>)
    /\ UNCHANGED <<metadata, downloaded_hashes>>

AttemptSaved(content) ==
    /\ LoopRuns
    /\ CurUrl # <<>>
    /\ md5(content) \notin downloaded_hashes
    /\ downloaded_hashes' = downloaded_hashes \cup {md5(content)}
    /\ files' = Written(content)
    /\ saves' = [saves EXCEPT ![content] = @ + 1]
    /\ Answered(TRUE)
    /\ Returned("saved", <<>>)
    /\ UNCHANGED metadata

\* lines 436-441: the hash is remembered, then makedirs/open/write raises OSError;
\* process_product's except clause notes it (lines 523-524, 564-565)
AttemptWriteFails(content) ==
    /\ LoopRuns
    /\ CurUrl # <<>>
    /\ md5(content) \notin downloaded_hashes
    /\ downloaded_hashes' = downloaded_hashes \cup {md5(content)}
    /\ Answered(FALSE)
    /\ Returned("write_error", <<>>)
    /\ UNCHANGED <<files, metadata, saves>>

\* lines 546-549: the video URL is too short or not https, continue
VideoSkipped ==
    /\ pc = "videos"
    /\ LoopRuns
    /\ CurUrl = <<>>
    /\ idx' = idx + 1
    /\ UNCHANGED <<pc, todo, product, asin, html, image_urls, video_urls, attempt,
                   result, results, report, calls, last_fail, sleeps>>
    /\ UNCHANGED <<runVars, diskVars, netVars>>

\* lines 513-517 end, 526-533: the image loop is over, the videos are extracted
ImagesDone ==
    /\ pc = "images"
    /\ ~LoopRuns
    /\ \E extracted \in (IF html # <<>> THEN ExtractVideoOutputs(html[1].videos) ELSE {<<>>}) :
           video_urls' = TakeFirst(extracted, cfg.max_videos)
    /\ idx' = 1
    /\ pc' = "videos"
    /\ UNCHANGED <<todo, product, asin, html, image_urls, attempt, result, results,
                   report, calls, last_fail, sleeps>>
    /\ UNCHANGED <<runVars, diskVars, netVars>>

\* lines 535-539 end: the video loop is over
VideosDone ==
    /\ pc = "videos"
    /\ ~LoopRuns
    /\ pc' = "meta"
    /\ UNCHANGED <<todo, product, asin, html, result, results, report>>
    /\ UNCHANGED <<runVars, loopVars, diskVars, netVars>>

\* lines 567-584 and 608-609: metadata.json is written, the result is appended
WriteMetadata ==
    /\ pc = "meta"
    /\ metadata' = {m \in metadata : m.asin # asin}
                   \cup {[asin |-> asin, images_count |-> result.images_downloaded,
                          videos_count |-> result.videos_downloaded]}
    /\ results' = Append(results, result)
    /\ todo' = todo - 1
    /\ pc' = "next"
    /\ calls' = <<>>
    /\ UNCHANGED <<product, asin, html, result, report, runVars, netVars>>
    /\ UNCHANGED <<image_urls, video_urls, idx, attempt, last_fail, sleeps>>
    /\ UNCHANGED <<downloaded_hashes, files, saves>>

\* lines 580-582: open/json.dump raises, nothing catches it
MetadataFails ==
    /\ pc = "meta"
    /\ pc' = "crashed"
    /\ UNCHANGED <<todo, product, asin, html, result, results, report>>
    /\ UNCHANGED <<runVars, loopVars, diskVars, netVars>>

\* scrape_products, line 618: every product is processed, results go to main
ScrapeDone ==
    /\ pc = "next"
    /\ todo = 0
    /\ pc' = "report"
    /\ UNCHANGED <<todo, product, asin, html, result, results, report>>
    /\ UNCHANGED <<runVars, loopVars, diskVars, netVars>>

\* generate_report, lines 628-630: sum(... for r in results)
SumOfFirst(rs, field) ==
    IF rs = <<>> THEN 0
    ELSE CASE field = "images" -> rs[1].images_downloaded
           [] field = "videos" -> rs[1].videos_downloaded
           [] OTHER -> Len(rs[1].errors)

RECURSIVE SumOf(_, _)
SumOf(rs, field) ==
    IF rs = <<>> THEN 0
    ELSE (CASE field = "images" -> rs[1].images_downloaded
            [] field = "videos" -> rs[1].videos_downloaded
            [] OTHER -> Len(rs[1].errors)) + SumOf(Tail(rs), field)

\* generate_report, line 638: f"{with_images / len(results) * 100:.1f}%", the
\* percentage rounded to one decimal, counted in tenths of a percent
success_rate(rs) ==
    LET with_images == Cardinality({i \in 1..Len(rs) : rs[i].images_downloaded > 0})
    IN (2000 * with_images + Len(rs)) \div (2 * Len(rs))

\* generate_report, lines 628-643
GenerateReport ==
    /\ pc = "report"
    /\ Len(results) > 0
    /\ report' = <<[total_products |-> Len(results),
                    total_images_downloaded |-> SumOf(results, "images"),
                    total_videos_downloaded |-> SumOf(results, "videos"),
                    total_errors |-> SumOf(results, "errors"),
                    success_rate |-> success_rate(results),
                    products |-> results]>>
    /\ pc' = "done"
    /\ UNCHANGED <<todo, product, asin, html, result, results>>
    /\ UNCHANGED <<runVars, loopVars, diskVars, netVars>>

\* generate_report, line 638: len(results) is 0, the division raises ZeroDivisionError
ReportDivisionFails ==
    /\ pc = "report"
    /\ Len(results) = 0
    /\ pc' = "crashed"
    /\ UNCHANGED <<todo, product, asin, html, result, results, report>>
    /\ UNCHANGED <<runVars, loopVars, diskVars, netVars>>

Next ==
    \/ \E n \in 0..MaxProducts : LoadCatalog(n)
    \/ LoadFails
    \/ \E p \in Products : ProductNoAsin(p)
    \/ \E p \in Products : BeginProduct(p)
    \/ \E p \in Products : MkdirFails(p)
    \/ \E page \in RunPages : FetchPageOk(page)
    \/ FetchPageFails
    \/ \E kind \in FailKinds : AttemptRetried(kind)
    \/ \E kind \in FailKinds : AttemptExhausted(kind)
    \/ AttemptZeroLength
    \/ \E content \in Contents : AttemptDuplicate(content)
    \/ \E content \in Contents : AttemptSaved(content)
    \/ \E content \in Contents : AttemptWriteFails(content)
    \/ VideoSkipped
    \/ ImagesDone
    \/ VideosDone
    \/ WriteMetadata
    \/ MetadataFails
    \/ ScrapeDone
    \/ GenerateReport
    \/ ReportDivisionFails

Spec == Init /\ [][Next]_vars

(***************************************************************************)
(* The extractor on its own: one call of extract_image_urls_from_html on   *)
(* every page of the bounded page set                                      *)
(***************************************************************************)
InitExtract ==
    /\ cfg \in {c \in Cfgs : c.max_videos = 0}
    /\ pc = "extract"
    /\ ex_page \in Pages
    /\ ex_out = <<>>
    /\ todo = 0
    /\ product = NoProduct
    /\ asin = None
    /\ html = <<>>
    /\ image_urls = <<>>
    /\ video_urls = <<>>
    /\ idx = 1
    /\ attempt = 0
    /\ result = NewResult(NoProduct)
    /\ results = <<>>
    /\ downloaded_hashes = {}
    /\ files = {}
    /\ metadata = {}
    /\ report = <<>>
    /\ calls = <<>>
    /\ last_fail = None
    /\ sleeps = <<>>
    /\ saves = [c \in Contents |-> 0]
    /\ since_ok = RATE_LIMIT
    /\ BatchIdle
    /\ SpeechIdle
    /\ MissingIdle

\* extract_image_urls_from_html(html, asin), lines 118-345
ExtractCall ==
    /\ pc = "extract"
    /\ \E out \in ExtractOutputs(ex_page, cfg.max_images) : ex_out' = <<out>>
    /\ pc' = "extracted"
    /\ UNCHANGED <<cfg, ex_page, todo, product, asin, html, result, results, report>>
    /\ UNCHANGED <<loopVars, diskVars, netVars, batchVars, speechVars, missingVars>>

\* the same page is extracted once more, by another run of the scraper
\* (a new interpreter: a new order of set iteration)
ExtractAgain ==
    /\ pc = "extracted"
    /\ \E out \in ExtractOutputs(ex_page, cfg.max_images) : ex_out' = Append(ex_out, out)
    /\ pc' = "extracted again"
    /\ UNCHANGED <<cfg, ex_page, todo, product, asin, html, result, results, report>>
    /\ UNCHANGED <<loopVars, diskVars, netVars, batchVars, speechVars, missingVars>>

NextExtract == ExtractCall \/ ExtractAgain

SpecExtract == InitExtract /\ [][NextExtract]_vars

(***************************************************************************)
(* The batch runner (src/Scraping Script/batch_scraper.py): BatchScraper.run *)
(* splits the catalog into chunks and runs the scraper on each of them     *)
(***************************************************************************)
\* batch_scraper.py line 172: wait_time = 30
COOLDOWN == 30

\* --rate-limit values: the default, the cool-down itself, twice the cool-down
BatchRateLimits == {RATE_LIMIT, COOLDOWN, 2 * COOLDOWN}

\* --batch-size and --resume-from are any int argparse reads
BatchSizes == -1..MaxBatchSize
ResumeFroms == 0..MaxResumeFrom

\* split_products, line 73: len(range(0, n, batch_size)); range() raises for
\* batch_size 0 (SplitRaises) and no batch file is written
SplitCount(n, bs) == IF bs <= 0 \/ n = 0 THEN 0 ELSE (n + bs - 1) \div bs

\* split_products, line 74: products[i:i + batch_size] of the k-th step,
\* products written as their positions in the catalog
Chunk(n, bs, k) ==
    [j \in 1..(Min(k * bs, n) - (k - 1) * bs) |-> (k - 1) * bs + j]

\* split_products, lines 72-83: the batch files written
split_products(n, bs) == [k \in 1..SplitCount(n, bs) |-> Chunk(n, bs, k)]

InitBatch ==
    /\ b_args \in [batch_size : BatchSizes, rate_limit : BatchRateLimits,
                   resume_from : ResumeFroms, products : 0..MaxBatchProducts]
    /\ batch_files = <<>>
    /\ batch_num = 1
    /\ successful_batches = 0
    /\ failed_batches = <<>>
    /\ summary = <<>>
    /\ b_log = <<>>
    /\ pc = "split"
    /\ cfg = [max_images |-> MaxImagesCap, max_videos |-> MaxVideosCap]
    /\ ex_page = PageOf({})
    /\ ex_out = <<>>
    /\ todo = 0
    /\ product = NoProduct
    /\ asin = None
    /\ html = <<>>
    /\ image_urls = <<>>
    /\ video_urls = <<>>
    /\ idx = 1
    /\ attempt = 0
    /\ result = NewResult(NoProduct)
    /\ results = <<>>
    /\ downloaded_hashes = {}
    /\ files = {}
    /\ metadata = {}
    /\ report = <<>>
    /\ calls = <<>>
    /\ last_fail = None
    /\ sleeps = <<>>
    /\ saves = [c \in Contents |-> 0]
    /\ since_ok = RATE_LIMIT
    /\ SpeechIdle
    /\ MissingIdle

scraperVars == <<cfg, ex_page, ex_out, todo, product, asin, html, result, results,
                 report, loopVars, diskVars, netVars, speechVars, missingVars>>

\* run, lines 143-156: the catalog is split; with no batch file run returns {}
SplitProducts ==
    /\ pc = "split"
    /\ b_args.batch_size # 0
    /\ batch_files' = split_products(b_args.products, b_args.batch_size)
    /\ pc' = IF batch_files' = <<>> THEN "batch done" ELSE "chunks"
    /\ UNCHANGED <<b_args, batch_num, successful_batches, failed_batches, summary, b_log>>
    /\ UNCHANGED scraperVars

\* split_products, lines 63-68, and run, 144-146: the catalog cannot be loaded
SplitLoadFails ==
    /\ pc = "split"
    /\ pc' = "batch done"
    /\ UNCHANGED batchVars
    /\ UNCHANGED scraperVars

\* split_products, lines 73-78: range() raises ValueError for batch_size 0, or
\* a batch file cannot be written; nothing catches it
SplitRaises ==
    /\ pc = "split"
    /\ b_args.batch_size = 0 \/ SplitCount(b_args.products, b_args.batch_size) > 0
    /\ pc' = "batch crashed"
    /\ UNCHANGED batchVars
    /\ UNCHANGED scraperVars

\* run, line 159: if batch_num < resume_from
SkippedThrough(num, resume_from) == num <= resume_from

Skipped(num, resume_from) == num < resume_from

\* run, line 171: if batch_num < total_batches
NeedsWaitBeforeLast(num, total_batches) == num < total_batches - 1

NeedsWait(num, total_batches) == num < total_batches

\* run, lines 159-161: the chunk is skipped
SkipBatch ==
    /\ pc = "chunks"
    /\ batch_num <= Len(batch_files)
    /\ Skipped(batch_num, b_args.resume_from)
    /\ batch_num' = batch_num + 1
    /\ UNCHANGED <<pc, b_args, batch_files, successful_batches, failed_batches,
                   summary, b_log>>
    /\ UNCHANGED scraperVars

\* what one turn of the chunk loop adds to the history: the scrape_batch call
\* (line 163) and the time.sleep(wait_time) after it (lines 171-174)
Logged(num) ==
    <<[ev |-> "scrape", n |-> num, secs |-> 0]>>
    \o (IF NeedsWait(num, Len(batch_files))
        THEN <<[ev |-> "wait", n |-> num, secs |-> COOLDOWN]>>
        ELSE <<>>)

\* amazon_product_scraper.py, scrape_products 586-618 in the process scrape_batch
\* starts for one chunk: every product's image is answered with served[product]
\* and saved unless its hash is in this process's downloaded_hashes (430-436)
RECURSIVE ScrapeChunk(_, _, _)
ScrapeChunk(chunk, served, hashes) ==
    IF chunk = <<>> THEN [hashes |-> hashes, saved |-> <<>>]
    ELSE LET content == served[chunk[1]]
             rest == ScrapeChunk(Tail(chunk), served, hashes \cup {md5(content)})
         IN [hashes |-> rest.hashes,
             saved |-> (IF md5(content) \in hashes THEN <<>>
                        ELSE <<[product |-> chunk[1], content |-> content]>>)
                       \o rest.saved]

\* scrape_batch, lines 97 and 110: the chunk's process writes under its own
\* product_media_batch_NNN directory
BatchPath(num, prod) == <<num, prod, "image", 1>>

\* run, lines 163-174, scrape_batch 107-122: the scraper process of the chunk
\* (main, 705-717: a new AmazonProductScraper, whose downloaded_hashes is a new
\* empty set, line 91) scrapes the chunk and exits with 0
ScrapeBatchOk ==
    /\ pc = "chunks"
    /\ batch_num <= Len(batch_files)
    /\ ~Skipped(batch_num, b_args.resume_from)
    /\ \E served \in [Range(batch_files[batch_num]) -> Contents] :
           LET ran == ScrapeChunk(batch_files[batch_num], served, {})
           IN /\ downloaded_hashes' = ran.hashes
              /\ files' = files \cup {[path |-> BatchPath(batch_num, s.product),
                                        content |-> s.content] : s \in Range(ran.saved)}
              /\ saves' = [c \in Contents |-> saves[c] +
                               Cardinality({s \in Range(ran.saved) : s.content = c})]
    /\ successful_batches' = successful_batches + 1
    /\ b_log' = b_log \o Logged(batch_num)
    /\ batch_num' = batch_num + 1
    /\ UNCHANGED <<pc, b_args, batch_files, failed_batches, summary>>
    /\ UNCHANGED <<cfg, ex_page, ex_out, todo, product, asin, html, result, results,
                   report, loopVars, netVars, metadata, speechVars, missingVars>>

\* run, lines 163-174, scrape_batch 124-129: the scraper process fails
ScrapeBatchFailsStops ==
    /\ pc = "chunks"
    /\ batch_num <= Len(batch_files)
    /\ ~Skipped(batch_num, b_args.resume_from)
    /\ failed_batches' = Append(failed_batches, batch_num)
    /\ b_log' = Append(b_log, [ev |-> "scrape", n |-> batch_num, secs |-> 0])
    /\ batch_num' = Len(batch_files) + 1
    /\ UNCHANGED <<pc, b_args, batch_files, successful_batches, summary>>
    /\ UNCHANGED scraperVars

ScrapeBatchFails ==
    /\ pc = "chunks"
    /\ batch_num <= Len(batch_files)
    /\ ~Skipped(batch_num, b_args.resume_from)
    /\ failed_batches' = Append(failed_batches, batch_num)
    /\ b_log' = b_log \o Logged(batch_num)
    /\ batch_num' = batch_num + 1
    /\ UNCHANGED <<pc, b_args, batch_files, successful_batches, summary>>
    /\ UNCHANGED scraperVars

\* run, lines 176-189: the loop is over, the summary is returned
Summarise ==
    /\ pc = "chunks"
    /\ batch_num > Len(batch_files)
    /\ summary' = <<[total_batches |-> Len(batch_files),
                     successful_batches |-> successful_batches,
                     failed_batches |-> failed_batches]>>
    /\ pc' = "batch done"
    /\ UNCHANGED <<b_args, batch_files, batch_num, successful_batches, failed_batches, b_log>>
    /\ UNCHANGED scraperVars

NextBatch ==
    \/ SplitProducts
    \/ SplitLoadFails
    \/ SplitRaises
    \/ SkipBatch
    \/ ScrapeBatchOk
    \/ ScrapeBatchFails
    \/ Summarise

SpecBatch == InitBatch /\ [][NextBatch]_vars

\* the scraper's variables while no catalog run is modelled
ScraperIdle ==
    /\ cfg = [max_images |-> MaxImagesCap, max_videos |-> MaxVideosCap]
    /\ ex_page = PageOf({})
    /\ ex_out = <<>>
    /\ todo = 0
    /\ product = NoProduct
    /\ asin = None
    /\ html = <<>>
    /\ image_urls = <<>>
    /\ video_urls = <<>>
    /\ idx = 1
    /\ attempt = 0
    /\ result = NewResult(NoProduct)
    /\ results = <<>>
    /\ downloaded_hashes = {}
    /\ files = {}
    /\ metadata = {}
    /\ report = <<>>
    /\ calls = <<>>
    /\ last_fail = None
    /\ sleeps = <<>>
    /\ saves = [c \in Contents |-> 0]
    /\ since_ok = RATE_LIMIT

(***************************************************************************)
(* The speech endpoint (src/backend/app/main.py): synthesize_speech tries  *)
(* MCP-TTS, then gTTS and Eleven Labs in the configured order              *)
(***************************************************************************)
\* what execute_mcp_command and lines 205-218 can come to: an error dict, a dict
\* with audio_data, one with audio_url, one with neither (mcp/client.py line 54),
\* audio_data that b64decode rejects, parsed JSON that is not a dict
McpOutcomes == {"error", "audio_data", "audio_url", "nothing", "bad_base64", "not_a_dict"}

\* what synthesize_with_gtts / synthesize_with_elevenlabs can come to: MP3
\* bytes, no bytes at all, an exception
FallbackOutcomes == {"mp3", "", "raises"}

\* `if audio_data_bytes:` (lines 227, 238) and `if not audio_data_bytes:` (265)
Truthy(bytes) == bytes \notin {None, ""}

\* lines 258-263: the order of the two fallback providers
FallbackOrderGttsFirst(prefer_gtts) == <<"gtts", "eleven_labs">>

FallbackOrder(prefer_gtts) ==
    IF prefer_gtts THEN <<"gtts", "eleven_labs">> ELSE <<"eleven_labs", "gtts">>

\* the fallback provider whose turn it is
Due ==
    IF tts_pc = "first" THEN FallbackOrder(settings.tts_prefer_gtts)[1]
    ELSE IF tts_pc = "second" THEN FallbackOrder(settings.tts_prefer_gtts)[2]
    ELSE None

AfterTry == IF tts_pc = "first" THEN "second" ELSE "respond"

InitSpeech ==
    /\ settings \in [tts_prefer_gtts : BOOLEAN, enable_eleven_labs : BOOLEAN,
                      eleven_labs_api_key : BOOLEAN]
    /\ tts_pc = "mcp"
    /\ mcp_result = [result |-> "dict", error |-> FALSE, mcp_error |-> FALSE]
    /\ audio_data_bytes = None
    /\ tts_response = <<>>
    /\ tts_called = <<>>
    /\ pc = "speech"
    /\ ScraperIdle
    /\ BatchIdle
    /\ MissingIdle

\* lines 191-218: the MCP-TTS call; an audio_url is answered at once (215)
McpCall(outcome) ==
    /\ tts_pc = "mcp"
    /\ tts_called' = Append(tts_called,
           [provider |-> "mcp", audio |-> outcome \in {"audio_data", "audio_url"}])
    /\ mcp_result' = [result |-> IF outcome = "not_a_dict" THEN "not a dict" ELSE "dict",
                      error |-> outcome = "error",
                      mcp_error |-> outcome \in {"bad_base64", "not_a_dict"}]
    /\ audio_data_bytes' = IF outcome = "audio_data" THEN "mp3" ELSE None
    /\ IF outcome = "audio_url"
       THEN /\ tts_response' = <<[status |-> 200, body |-> "audio_url"]>>
            /\ tts_pc' = "answered"
       ELSE /\ tts_response' = tts_response
            /\ tts_pc' = "first"
    /\ UNCHANGED <<settings, pc, todo, product, asin, html, result, results, report,
                   cfg, ex_page, ex_out, loopVars, diskVars, netVars, batchVars,
                   missingVars>>

\* try_gtts, lines 227-228: audio is there already
TryGttsSkips ==
    /\ Due = "gtts"
    /\ Truthy(audio_data_bytes)
    /\ tts_pc' = AfterTry
    /\ UNCHANGED <<settings, mcp_result, audio_data_bytes, tts_response, tts_called>>
    /\ UNCHANGED <<pc, todo, product, asin, html, result, results, report,
                   cfg, ex_page, ex_out, loopVars, diskVars, netVars, batchVars,
                   missingVars>>

\* try_gtts, lines 229-234: synthesize_with_gtts is called
TryGtts(outcome) ==
    /\ Due = "gtts"
    /\ ~Truthy(audio_data_bytes)
    /\ audio_data_bytes' = IF outcome = "raises" THEN audio_data_bytes ELSE outcome
    /\ tts_called' = Append(tts_called, [provider |-> "gtts", audio |-> outcome = "mp3"])
    /\ tts_pc' = AfterTry
    /\ UNCHANGED <<settings, mcp_result, tts_response>>
    /\ UNCHANGED <<pc, todo, product, asin, html, result, results, report,
                   cfg, ex_page, ex_out, loopVars, diskVars, netVars, batchVars,
                   missingVars>>

\* try_eleven_labs, lines 238-245: audio is there already, or Eleven Labs is
\* disabled or has no key
TryElevenLabsSkips ==
    /\ Due = "eleven_labs"
    /\ \/ Truthy(audio_data_bytes)
       \/ ~settings.enable_eleven_labs
       \/ ~settings.eleven_labs_api_key
    /\ tts_pc' = AfterTry
    /\ UNCHANGED <<settings, mcp_result, audio_data_bytes, tts_response, tts_called>>
    /\ UNCHANGED <<pc, todo, product, asin, html, result, results, report,
                   cfg, ex_page, ex_out, loopVars, diskVars, netVars, batchVars,
                   missingVars>>

\* try_eleven_labs, line 246: result.get on a result that is not a dict raises
\* outside the inner try; lines 287-289 answer 500
TryElevenLabsRaises ==
    /\ Due = "eleven_labs"
    /\ ~Truthy(audio_data_bytes)
    /\ settings.enable_eleven_labs
    /\ settings.eleven_labs_api_key
    /\ mcp_result.result = "not a dict"
    /\ tts_response' = <<[status |-> 500, body |-> "Speech synthesis error"]>>
    /\ tts_pc' = "answered"
    /\ UNCHANGED <<settings, mcp_result, audio_data_bytes, tts_called>>
    /\ UNCHANGED <<pc, todo, product, asin, html, result, results, report,
                   cfg, ex_page, ex_out, loopVars, diskVars, netVars, batchVars,
                   missingVars>>

\* try_eleven_labs, lines 246-256: synthesize_with_elevenlabs is called
TryElevenLabs(outcome) ==
    /\ Due = "eleven_labs"
    /\ ~Truthy(audio_data_bytes)
    /\ settings.enable_eleven_labs
    /\ settings.eleven_labs_api_key
    /\ mcp_result.result = "dict"
    /\ audio_data_bytes' = IF outcome = "raises" THEN audio_data_bytes ELSE outcome
    /\ tts_called' = Append(tts_called,
           [provider |-> "eleven_labs", audio |-> outcome = "mp3"])
    /\ tts_pc' = AfterTry
    /\ UNCHANGED <<settings, mcp_result, tts_response>>
    /\ UNCHANGED <<pc, todo, product, asin, html, result, results, report,
                   cfg, ex_page, ex_out, loopVars, diskVars, netVars, batchVars,
                   missingVars>>

\* lines 265-283: 500 when there is no audio, the audio as base64 otherwise
Respond ==
    /\ tts_pc = "respond"
    /\ tts_response' =
           IF Truthy(audio_data_bytes)
           THEN <<[status |-> 200, body |-> "audio_data"]>>
           ELSE <<[status |-> 500, body |-> "Speech synthesis failed"]>>
    /\ tts_pc' = "answered"
    /\ UNCHANGED <<settings, mcp_result, audio_data_bytes, tts_called>>
    /\ UNCHANGED <<pc, todo, product, asin, html, result, results, report,
                   cfg, ex_page, ex_out, loopVars, diskVars, netVars, batchVars,
                   missingVars>>

NextSpeech ==
    \/ \E outcome \in McpOutcomes : McpCall(outcome)
    \/ TryGttsSkips
    \/ \E outcome \in FallbackOutcomes : TryGtts(outcome)
    \/ TryElevenLabsSkips
    \/ TryElevenLabsRaises
    \/ \E outcome \in FallbackOutcomes : TryElevenLabs(outcome)
    \/ Respond

SpecSpeech == InitSpeech /\ [][NextSpeech]_vars

(***************************************************************************)
(* src/Scraping Script/download_missing_images.py: one image_01 file for    *)
(* every product of the catalog that has no image yet; the script is run    *)
(* again after a run that left failures                                     *)
(***************************************************************************)
\* the records of products-simple.json: an asin with an image_url, or None for
\* a record that lacks one of them (line 83); no record lists local_images yet
DmCatalogs ==
    UNION {[1..n -> {"P1", "P2", None}] : n \in 0..MaxMissingProducts}

\* check_product_has_images, lines 47-56: any image_* file in the directory
check_product_has_images(a) == \E f \in dm_files : f.asin = a

\* main, line 130: output_path.exists()
OutputPathExists(a) == \E f \in dm_files : f.asin = a

\* main, lines 76-102: the products that need an image
RECURSIVE NeedingImages(_)
NeedingImages(catalog) ==
    IF catalog = <<>> THEN <<>>
    ELSE (IF catalog[1] # None /\ ~check_product_has_images(catalog[1])
          THEN <<catalog[1]>> ELSE <<>>) \o NeedingImages(Tail(catalog))

InitMissing ==
    /\ dm_catalog \in DmCatalogs
    /\ dm_files = {}
    /\ dm_pc = "scan"
    /\ products_needing_images = <<>>
    /\ dm_idx = 1
    /\ dm_counts = [success_count |-> 0, fail_count |-> 0]
    /\ dm_run = 1
    /\ dm_failed = {}
    /\ pc = "missing"
    /\ ScraperIdle
    /\ BatchIdle
    /\ SpeechIdle

notMissingVars == <<pc, todo, product, asin, html, result, results, report, cfg, ex_page,
                    ex_out, loopVars, diskVars, netVars, batchVars, speechVars>>

\* main, lines 69-72: products-simple.json cannot be read, nothing catches it
DmLoadRaises ==
    /\ dm_pc = "scan"
    /\ dm_pc' = "crashed"
    /\ UNCHANGED <<dm_catalog, dm_files, products_needing_images, dm_idx, dm_counts,
                   dm_run, dm_failed>>
    /\ UNCHANGED notMissingVars

\* main, lines 76-112: some products need an image, the download loop starts
FindMissing ==
    /\ dm_pc = "scan"
    /\ NeedingImages(dm_catalog) # <<>>
    /\ products_needing_images' = NeedingImages(dm_catalog)
    /\ dm_idx' = 1
    /\ dm_counts' = [success_count |-> 0, fail_count |-> 0]
    /\ dm_pc' = "download"
    /\ UNCHANGED <<dm_catalog, dm_files, dm_run, dm_failed>>
    /\ UNCHANGED notMissingVars

\* main, lines 76-108: "All products already have images!"
NothingMissing ==
    /\ dm_pc = "scan"
    /\ NeedingImages(dm_catalog) = <<>>
    /\ products_needing_images' = <<>>
    /\ dm_pc' = "finished"
    /\ UNCHANGED <<dm_catalog, dm_files, dm_idx, dm_counts, dm_run, dm_failed>>
    /\ UNCHANGED notMissingVars

\* main, lines 114-133: image_01 is there already (an earlier record of the
\* same asin in this run), counted as a success
ImageExists ==
    /\ dm_pc = "download"
    /\ dm_idx <= Len(products_needing_images)
    /\ OutputPathExists(products_needing_images[dm_idx])
    /\ dm_counts' = [dm_counts EXCEPT !.success_count = @ + 1]
    /\ dm_idx' = dm_idx + 1
    /\ UNCHANGED <<dm_catalog, dm_files, dm_pc, products_needing_images, dm_run, dm_failed>>
    /\ UNCHANGED notMissingVars

\* main, lines 136-146, download_image 15-30: the image is written whole
DownloadOk ==
    /\ dm_pc = "download"
    /\ dm_idx <= Len(products_needing_images)
    /\ ~OutputPathExists(products_needing_images[dm_idx])
    /\ dm_files' = dm_files \cup {[asin |-> products_needing_images[dm_idx],
                                    content |-> "whole"]}
    /\ dm_counts' = [dm_counts EXCEPT !.success_count = @ + 1]
    /\ dm_failed' = dm_failed \ {products_needing_images[dm_idx]}
    /\ dm_idx' = dm_idx + 1
    /\ UNCHANGED <<dm_catalog, dm_pc, products_needing_images, dm_run>>
    /\ UNCHANGED notMissingVars

\* download_image, lines 19-20 and 31-33: requests.get or raise_for_status
\* raises before the file is opened; main, lines 147-149
DownloadFailsBeforeOpen ==
    /\ dm_pc = "download"
    /\ dm_idx <= Len(products_needing_images)
    /\ ~OutputPathExists(products_needing_images[dm_idx])
    /\ dm_counts' = [dm_counts EXCEPT !.fail_count = @ + 1]
    /\ dm_failed' = dm_failed \cup {products_needing_images[dm_idx]}
    /\ dm_idx' = dm_idx + 1
    /\ UNCHANGED <<dm_catalog, dm_files, dm_pc, products_needing_images, dm_run>>
    /\ UNCHANGED notMissingVars

\* download_image, lines 26-33: the file is open for writing when iter_content
\* raises; the except clause returns False and removes nothing
DownloadFailsPartWay ==
    /\ dm_pc = "download"
    /\ dm_idx <= Len(products_needing_images)
    /\ ~OutputPathExists(products_needing_images[dm_idx])
    /\ dm_files' = dm_files \cup {[asin |-> products_needing_images[dm_idx],
                                    content |-> "partial"]}
    /\ dm_counts' = [dm_counts EXCEPT !.fail_count = @ + 1]
    /\ dm_failed' = dm_failed \cup {products_needing_images[dm_idx]}
    /\ dm_idx' = dm_idx + 1
    /\ UNCHANGED <<dm_catalog, dm_pc, products_needing_images, dm_run>>
    /\ UNCHANGED notMissingVars

\* main, lines 155-162: the loop is over
DmFinished ==
    /\ dm_pc = "download"
    /\ dm_idx > Len(products_needing_images)
    /\ dm_pc' = "finished"
    /\ UNCHANGED <<dm_catalog, dm_files, products_needing_images, dm_idx, dm_counts,
                   dm_run, dm_failed>>
    /\ UNCHANGED notMissingVars

\* the script is started again on the same catalog and directories
RunAgain ==
    /\ dm_pc = "finished"
    /\ dm_run < MaxRuns
    /\ dm_run' = dm_run + 1
    /\ dm_pc' = "scan"
    /\ UNCHANGED <<dm_catalog, dm_files, products_needing_images, dm_idx, dm_counts,
                   dm_failed>>
    /\ UNCHANGED notMissingVars

NextMissing ==
    \/ DmLoadRaises
    \/ FindMissing
    \/ NothingMissing
    \/ ImageExists
    \/ DownloadOk
    \/ DownloadFailsBeforeOpen
    \/ DownloadFailsPartWay
    \/ DmFinished
    \/ RunAgain

SpecMissing == InitMissing /\ [][NextMissing]_vars

(***************************************************************************)
(* Properties                                                              *)
(***************************************************************************)
ImageCalls == {k \in 1..Len(calls) : calls[k].path[2] = "image"}

FailedCalls == {k \in 1..Len(calls) : calls[k].how # "saved"}

\* the clean URLs the extractor found on the fetched page, before the cap
Discovered == IF html = <<>> THEN {} ELSE CleanUrls(FoundUrls(html[1].images))

WithinCaps(r) ==
    /\ r.images_downloaded <= cfg.max_images
    /\ r.videos_downloaded <= cfg.max_videos

\* C1: the result of process_product never counts more images than max_images
\* nor more videos than max_videos, during the product and in every result
\* returned, also when the page offered more candidates than the caps.
C1_CapEnforced ==
    /\ WithinCaps(result)
    /\ \A i \in 1..Len(results) : WithinCaps(results[i])

C1_Witness ==
    /\ pc = "meta"
    /\ Cardinality(Discovered) > cfg.max_images
    /\ cfg.max_images >= 1
    /\ result.images_downloaded = cfg.max_images
    /\ result.videos_downloaded = cfg.max_videos
    /\ cfg.max_videos >= 1

\* C2: within one run, at most one download_file call per byte content returns
\* success and writes a file; no two files written in the run hold the same bytes.
C2_OneSavePerContent ==
    \A c \in Contents :
        /\ saves[c] <= 1
        /\ Cardinality({f \in files : f.content = c}) <= 1

C2_Witness ==
    /\ Len(results) >= 1
    /\ \E k \in 1..Len(calls) : calls[k].how = "duplicate"
    /\ \E c \in Contents : saves[c] = 1

FetchFailedWithFallback ==
    /\ pc = "meta"
    /\ html = <<>>
    /\ product.image_url # <<>>
    /\ HasSizePattern(product.image_url)

C4_RunAlwaysReports == pc # "crashed"

NotedDownloadErrors(r) ==
    Cardinality({i \in 1..Len(r.errors) : r.errors[i] \in {"Image error", "Video error"}})

\* C5 as claimed: when the downloads of a product are over, its errors list holds
\* one entry for each download_file call that did not save its asset.
C5_FailedDownloadsNoted ==
    pc = "meta" => NotedDownloadErrors(result) = Cardinality(FailedCalls)

\* C6: the k-th download_file call of the image loop is for the k-th URL of the
\* extractor's list and writes to image_k: downloads follow the rank order and
\* the filename indices increase strictly along it.
C6_RankOrder ==
    \A k \in ImageCalls :
        /\ k <= Len(image_urls)
        /\ calls[k].url = image_urls[k]
        /\ calls[k].path = <<asin, "image", k>>
        /\ \A j \in ImageCalls : j < k => calls[j].path[3] < calls[k].path[3]
        /\ calls[k].how = "saved" => \E f \in files : f.path = calls[k].path

C6_Witness ==
    /\ pc = "meta"
    /\ html # <<>>
    /\ Cardinality({k \in ImageCalls : calls[k].how = "saved"}) = 1
    /\ Cardinality(ImageCalls) = 2
    /\ calls[1].how = "exhausted"

\* C7 as claimed: a 4xx answer other than 429 ends download_file: after a 404 no
\* further attempt is made for the URL.
C7_ClientErrorIsTerminal == ~(attempt >= 1 /\ last_fail = "http404")

\* C7 as amended: download_file does not classify failures: every failure of the
\* request (timeout or network error, 404, 429, 5xx alike) is caught and retried,
\* and only the failure of attempt number max_retries ends the call.
C7_EveryFailureRetried ==
    /\ \A k \in 1..Len(calls) :
          /\ calls[k].how # "uncaught"
          /\ calls[k].how = "exhausted" => calls[k].attempts = MAX_RETRIES
    /\ attempt >= 1 => last_fail \in FailKinds
    /\ attempt <= MAX_RETRIES - 1

C7_Witness == attempt = MAX_RETRIES - 1 /\ last_fail = "http404"

RECURSIVE Doubling(_)
Doubling(n) == IF n = 0 THEN <<>> ELSE Append(Doubling(n - 1), 2 ^ (n - 1))

BackoffSchedule ==
    /\ attempt <= MAX_RETRIES - 1
    /\ sleeps = Doubling(attempt)
    /\ \A k \in 1..Len(calls) :
          calls[k].how = "exhausted" =>
              /\ calls[k].attempts = MAX_RETRIES
              /\ calls[k].sleeps = Doubling(MAX_RETRIES - 1)

\* a step taken while download_file runs either ends the call or is one more attempt
RetryProgress ==
    (LoopRuns /\ CurUrl # <<>>) =>
        \/ Len(calls') = Len(calls) + 1 /\ attempt' = 0
        \/ calls' = calls /\ attempt' = attempt + 1

\* C8: download_file terminates: every step of a running call either returns or
\* starts the next attempt, of which there are at most max_retries; after the i-th
\* failed attempt it has slept 1, 2, 4, ... (one backoff per failed attempt so
\* far), and the max_retries-th failure returns failure with no sleep after it.
C8_BoundedBackoff == [](BackoffSchedule) /\ [][RetryProgress]_vars

C8_Witness ==
    /\ Len(calls) >= 1
    /\ calls[1].how = "exhausted"
    /\ calls[1].sleeps = <<1, 2>>

AnsweredStep ==
    \/ \E page \in RunPages : FetchPageOk(page)
    \/ AttemptZeroLength
    \/ \E content \in Contents : AttemptDuplicate(content)
    \/ \E content \in Contents : AttemptSaved(content)
    \/ \E content \in Contents : AttemptWriteFails(content)

\* C9 as claimed: whenever the host answers a request, at least rate_limit seconds
\* have been slept since the previous request it answered.
C9_RateLimitEnforced == [][AnsweredStep => since_ok >= RATE_LIMIT]_vars

\* C10: no URL returned by extract_image_urls_from_html matches an excluded
\* pattern, and no candidate that matches one, whichever method found it, is in
\* the returned list as found, as cleaned or as upgraded.
C10_ExcludedNeverReturned ==
    ex_out # <<>> =>
        /\ \A u \in Range(ex_out[1]) : ~IsExcluded(u)
        /\ \A raw \in AllTierUrls(ex_page) :
              IsExcluded(CleanUrl(raw)) =>
                  {raw, CleanUrl(raw), Upgrade(CleanUrl(raw))} \cap Range(ex_out[1]) = {}

C10_Witness ==
    /\ ex_out # <<>>
    /\ Len(ex_out[1]) >= 1
    /\ \E t \in Tiers : \E raw \in ex_page[t] :
          /\ raw \in FoundUrls(ex_page)
          /\ IsExcluded(CleanUrl(raw))
          /\ AcceptsNoBlocklist(CleanUrl(raw))

\* C11 as claimed: two calls of extract_image_urls_from_html on the same page
\* with the same max_images return the same list.
C11_Deterministic == Len(ex_out) = 2 => ex_out[1] = ex_out[2]

\* Method 5 ran (methods 1 to 4 found nothing) and found at least one URL
TierFiveFound(page) ==
    /\ FoundUrlsNoBlock(page) = {}
    /\ page["scoped"] = {}
    /\ page["block"] # {}

\* C12 as claimed: when method 5 (the main-image-block scan) finds at least one
\* URL, the list returned is not empty.
C12_TierFiveNeverEmpty ==
    \A i \in 1..Len(ex_out) : TierFiveFound(ex_page) => ex_out[i] # <<>>

\* C12 as amended: when method 5 finds at least one URL that passes the
\* acceptance tests of the clean-up loop and max_images is at least 1, the list
\* returned is not empty and holds only URLs found by method 5.
C12_TierFiveAcceptedReturned ==
    \A i \in 1..Len(ex_out) :
        (/\ TierFiveFound(ex_page)
         /\ CleanUrls(ex_page["block"]) # {}
         /\ cfg.max_images >= 1)
        => /\ ex_out[i] # <<>>
           /\ Range(ex_out[i]) \subseteq CleanUrls(ex_page["block"])

C12_Witness ==
    /\ Len(ex_out) >= 1
    /\ TierFiveFound(ex_page)
    /\ \E raw \in ex_page["block"] : ~Accepts(CleanUrl(raw))
    /\ CleanUrls(ex_page["block"]) # {}
    /\ ex_out[1] # <<>>

\* a size suffix as the acceptance test of line 313 reads it (re.IGNORECASE)
HasSizeSuffix(url) ==
    \E i \in 1..Len(url) : Lower(url[i]) \in {Lower(tok) : tok \in SizeTokens}

\* C13 as claimed: for every URL the clean-up loop accepts, upgrading twice is
\* upgrading once, and the upgraded URL carries _AC_SL1500_ whenever the URL
\* carries a size suffix.
C13_UpgradeIdempotentToMax ==
    Len(ex_out) >= 1 =>
        \A raw \in FoundUrls(ex_page) :
            LET u == CleanUrl(raw)
            IN Accepts(u) =>
                  /\ Upgrade(Upgrade(u)) = Upgrade(u)
                  /\ HasSizeSuffix(u) => HasTok(Upgrade(u), MAX_SIZE)

\* the best resolution tier at which the page carried the image behind a clean URL
OrigPriority(page, url) ==
    LET tiers == {get_resolution_priority(CleanUrl(raw)) :
                     raw \in {r \in FoundUrls(page) :
                                 Accepts(CleanUrl(r)) /\ Upgrade(CleanUrl(r)) = url}}
    IN CHOOSE n \in tiers : \A m \in tiers : n <= m

\* C14 as claimed: every URL the extractor keeps carries _AC_SL1500_, and no
\* accepted URL it drops was on the page at a higher resolution tier than one
\* it keeps.
C14_HighestTierKept ==
    \A i \in 1..Len(ex_out) :
        LET kept == Range(ex_out[i])
            accepted == CleanUrls(FoundUrls(ex_page))
        IN /\ \A u \in kept : HasTok(u, MAX_SIZE)
           /\ \A u \in kept, v \in accepted \ kept :
                  OrigPriority(ex_page, u) <= OrigPriority(ex_page, v)

\* the chunk numbers handed to scrape_batch so far, in call order
ScrapedNums ==
    LET scraped == SelectSeq(b_log, LAMBDA e : e.ev = "scrape")
    IN [i \in 1..Len(scraped) |-> scraped[i].n]

\* the chunk numbers from a to b in increasing order
FromTo(a, b) == [i \in 1..(b - a + 1) |-> a + i - 1]

ChunksDue ==
    FromTo(IF b_args.resume_from < 1 THEN 1 ELSE b_args.resume_from, Len(batch_files))

\* C15: chunk k holds the products k*batch_size - batch_size + 1 .. k*batch_size
\* of the catalog; run never hands a chunk numbered below resume_from to
\* scrape_batch, hands the chunks numbered resume_from or higher to it in
\* increasing order, each once, and has handed over all of them when it returns.
C15_ResumeSkipsEarlierChunks ==
    /\ \A k \in 1..Len(batch_files) :
          /\ Len(batch_files[k]) \in 1..b_args.batch_size
          /\ \A j \in 1..Len(batch_files[k]) :
                batch_files[k][j] = (k - 1) * b_args.batch_size + j
    /\ batch_files # <<>> =>
          batch_files[Len(batch_files)][Len(batch_files[Len(batch_files)])] = b_args.products
    /\ \A i \in 1..Len(ScrapedNums) : ScrapedNums[i] >= b_args.resume_from
    /\ Len(ScrapedNums) <= Len(ChunksDue)
    /\ \A i \in 1..Len(ScrapedNums) : ScrapedNums[i] = ChunksDue[i]
    /\ summary # <<>> => ScrapedNums = ChunksDue

C15_Witness ==
    /\ summary # <<>>
    /\ b_args.resume_from = 2
    /\ Len(batch_files) = 3
    /\ b_args.batch_size = 1
    /\ ScrapedNums = <<2, 3>>

\* C16 as claimed: every scrape_batch call that is not the last of the run is
\* followed by a wait, and the wait is longer than the rate limit of the run.
C16_CooldownExceedsRateLimit ==
    \A i \in 1..(Len(b_log) - 1) :
        b_log[i].ev = "scrape" =>
            /\ b_log[i + 1].ev = "wait"
            /\ b_log[i + 1].secs > b_args.rate_limit

\* C16 as amended: between two consecutive scrape_batch calls there is exactly
\* one wait, of 30 seconds whatever the rate limit of the run is, also after a
\* failed chunk; the chunk after a wait is the next one in number.
C16_FixedCooldown ==
    \A i \in 1..(Len(b_log) - 1) :
        /\ b_log[i].ev = "scrape" =>
              /\ b_log[i + 1].ev = "wait"
              /\ b_log[i + 1].secs = COOLDOWN
        /\ b_log[i].ev = "wait" =>
              /\ b_log[i + 1].ev = "scrape"
              /\ b_log[i + 1].n = b_log[i].n + 1

C16_Witness ==
    /\ Len(ScrapedNums) >= 2
    /\ b_args.rate_limit > COOLDOWN
    /\ failed_batches # <<>>
    /\ b_log[2] = [ev |-> "wait", n |-> b_log[1].n, secs |-> COOLDOWN]

\* f[1] + ... + f[n]
RECURSIVE SumTo(_, _)
SumTo(f, n) == IF n = 0 THEN 0 ELSE f[n] + SumTo(f, n - 1)

\* C17: the report written by generate_report holds the results in the order
\* the products were processed; its totals are the sums of the images, videos
\* and error entries of those results (and together the number of assets saved
\* in the run); its success rate is the share of the results with at least one
\* image, to the nearest tenth of a percent.
C17_ReportTotals ==
    report # <<>> =>
        LET r == report[1]
            n == Len(results)
            with_images == Cardinality({i \in 1..n : results[i].images_downloaded > 0})
            off == r.success_rate * n - 1000 * with_images
        IN /\ r.products = results
           /\ r.total_products = n
           /\ r.total_images_downloaded =
                  SumTo([i \in 1..n |-> results[i].images_downloaded], n)
           /\ r.total_videos_downloaded =
                  SumTo([i \in 1..n |-> results[i].videos_downloaded], n)
           /\ r.total_errors = SumTo([i \in 1..n |-> Len(results[i].errors)], n)
           /\ r.total_images_downloaded + r.total_videos_downloaded
                  = Cardinality({c \in Contents : saves[c] >= 1})
           /\ 2 * off <= n
           /\ 2 * off >= 0 - n

C17_Witness ==
    /\ report # <<>>
    /\ Len(results) = 2
    /\ report[1].total_images_downloaded = 1
    /\ report[1].total_videos_downloaded = 1
    /\ report[1].total_errors >= 1
    /\ report[1].success_rate = 500

NoAsinError == "Could not extract ASIN from URL"

FetchError == "Failed to fetch product page (will try fallback)"

Identifiers == {ResolveAsin(p) : p \in Products} \ {None}

\* what the run holds of products without an identifier: a result with the one
\* error and no asset, and nothing on disk
NoAsinLeavesNothing ==
    /\ \A i \in 1..Len(results) :
          (results[i].asin = "Unknown" \/ NoAsinError \in Range(results[i].errors)) =>
              /\ results[i].errors = <<NoAsinError>>
              /\ results[i].images_downloaded = 0
              /\ results[i].videos_downloaded = 0
    /\ \A f \in files : f.path[1] \in Identifiers
    /\ \A m \in metadata : m.asin \in Identifiers
    /\ pc \in {"fetch", "images", "videos", "meta"} => asin \in Identifiers

\* the step of a product without an identifier: one result more, no request,
\* nothing written, and the run is at its next product
NoAsinStep ==
    (\E p \in Products : ProductNoAsin(p)) =>
        /\ Len(results') = Len(results) + 1
        /\ results'[Len(results')].errors = <<NoAsinError>>
        /\ UNCHANGED <<files, metadata, downloaded_hashes, saves, since_ok, calls>>
        /\ pc' = "next"
        /\ todo' = todo - 1

\* C18: a product with no asin and no /dp/ identifier in its URL gets a result
\* with exactly the one identification error and both counts 0; no request is
\* made, no file and no metadata record is written for it, and the run goes on
\* to its next product.
C18_NoAsinNoAssets == [](NoAsinLeavesNothing) /\ [][NoAsinStep]_vars

C18_Witness ==
    /\ Len(results) = 2
    /\ results[1].errors = <<NoAsinError>>
    /\ results[2].images_downloaded >= 1
    /\ \E m \in metadata : m.asin = results[2].asin

FetchErrors(r) == Cardinality({i \in 1..Len(r.errors) : r.errors[i] = FetchError})

\* C19: after a failed page fetch the product goes on: its errors hold exactly
\* one page-fetch entry, no image or video is extracted (the only image
\* candidate is what the fallback rule gives, no video is attempted), and the
\* product's metadata record is written with its counts when it ends.
C19_FetchFailureGoesOn ==
    /\ (pc \in {"images", "videos", "meta"} /\ html = <<>>) =>
          /\ FetchErrors(result) = 1
          /\ image_urls = TakeFirst(FallbackUrls(product), cfg.max_images)
          /\ video_urls = <<>>
          /\ \A k \in 1..Len(calls) : calls[k].path[2] = "image"
    /\ (pc \in {"images", "videos", "meta"} /\ html # <<>>) => FetchErrors(result) = 0
    /\ \A i \in 1..Len(results) :
          /\ FetchErrors(results[i]) <= 1
          /\ FetchErrors(results[i]) = 1 =>
                 \E m \in metadata : m.asin = results[i].asin
    /\ (pc = "next" /\ results # <<>> /\ FetchErrors(results[Len(results)]) = 1) =>
          \E m \in metadata :
              /\ m.asin = results[Len(results)].asin
              /\ m.images_count = results[Len(results)].images_downloaded
              /\ m.videos_count = 0

C19_Witness ==
    /\ pc = "next"
    /\ results # <<>>
    /\ FetchErrors(results[Len(results)]) = 1
    /\ results[Len(results)].images_downloaded = 1
    /\ \E m \in metadata : m.asin = results[Len(results)].asin /\ m.images_count = 1

\* extract_image_urls_from_html was not called or returned an empty list
ExtractedNothing == html = <<>> \/ cfg.max_images = 0 \/ Discovered = {}

\* C20 as claimed: the image candidates are the fallback URL alone, rewritten to
\* _AC_SL1500_, exactly when extraction gave no candidate and the record's
\* image_url matches the size pattern; when extraction gave candidates they are
\* the only ones and the fallback URL is not added.
C20_FallbackRule ==
    pc \in {"images", "videos", "meta"} =>
        IF ExtractedNothing
        THEN IF product.image_url # <<>> /\ HasSizePattern(product.image_url)
             THEN /\ image_urls = TakeFirst(<<Upgrade(product.image_url)>>, cfg.max_images)
                  /\ HasTok(Upgrade(product.image_url), MAX_SIZE)
             ELSE image_urls = <<>>
        ELSE /\ Range(image_urls) \subseteq Discovered
             /\ Len(image_urls) = Min(cfg.max_images, Cardinality(Discovered))

\* C21 as claimed: a download whose response is below the size threshold (about
\* 1KB) is a failure and leaves no file: every media file on disk holds at least
\* SIZE_THRESHOLD bytes.
C21_SmallResponseLeavesNoFile ==
    \A f \in files : SizeOf(f.content) >= SIZE_THRESHOLD

\* C22 as claimed: the content-hash set is shared by all products of a run,
\* products in different chunks of a batch run included: no content is on disk
\* under two paths, content saved for an earlier product is suppressed for every
\* later one.
C22_HashSetSharedAcrossChunks ==
    \A f, g \in files : f.content = g.content => f.path = g.path

\* two URLs that differ at most in their size suffix
SameImage(u, v) ==
    /\ Len(u) = Len(v)
    /\ \A n \in 1..Len(u) :
          \/ u[n] = v[n]
          \/ {Lower(u[n]), Lower(v[n])} \subseteq {Lower(tok) : tok \in SizeTokens}

\* C23 as claimed: every URL in the list extract_image_urls_from_html returns
\* carries the maximum size token, no URL is in the list twice, two candidates
\* that differ only in their size suffix give one entry, and the list holds at
\* most max_images entries.
C23_OutputNormalised ==
    \A k \in 1..Len(ex_out) :
        /\ \A u \in Range(ex_out[k]) : HasTok(u, MAX_SIZE)
        /\ \A i, j \in 1..Len(ex_out[k]) :
              i # j => ~SameImage(ex_out[k][i], ex_out[k][j])
        /\ Len(ex_out[k]) <= cfg.max_images

\* C24: synthesize_speech calls MCP first and then the two fallback providers in
\* the configured order (gTTS before Eleven Labs when tts_prefer_gtts is set,
\* Eleven Labs before gTTS otherwise), each at most once; a provider is called
\* only if no provider called before it produced audio; and the answer is an
\* HTTP 500 only if none of the providers called produced audio.
C24_FallbackOrder ==
    /\ tts_called # <<>> => tts_called[1].provider = "mcp"
    /\ \A i, j \in 1..Len(tts_called) :
          i < j =>
              /\ ~tts_called[i].audio
              /\ tts_called[j].provider # "mcp"
              /\ tts_called[i].provider # tts_called[j].provider
              /\ (tts_called[i].provider = "gtts" /\ tts_called[j].provider = "eleven_labs")
                    => settings.tts_prefer_gtts
              /\ (tts_called[i].provider = "eleven_labs" /\ tts_called[j].provider = "gtts")
                    => ~settings.tts_prefer_gtts
    /\ \A r \in Range(tts_response) :
          r.status = 500 => \A i \in 1..Len(tts_called) : ~tts_called[i].audio

C24_Witness ==
    /\ tts_pc = "answered"
    /\ ~settings.tts_prefer_gtts
    /\ Len(tts_called) = 3
    /\ tts_called[2].provider = "eleven_labs"
    /\ tts_called[3].provider = "gtts"
    /\ tts_response[1].status = 500

\* C25 as claimed: generate_report writes a report for every results list, the
\* empty list of an empty or unloadable catalog included: every step taken from
\* the call of generate_report ends the run with a report that counts the
\* results.
C25_ReportForEveryList ==
    [][pc = "report" =>
          /\ pc' = "done"
          /\ report' # <<>>
          /\ report'[1].total_products = Len(results)]_vars

\* C26 as claimed: every content hash held in downloaded_hashes belongs to a file
\* download_file saved in this run: a download that fails to write its file does
\* not leave its hash in the set.
C26_HashesAreOfSavedFiles ==
    \A c \in Contents : md5(c) \in downloaded_hashes => saves[c] >= 1

\* the numbers NN of the image_NN files in the current product's directory
ImageNumbers == {f.path[3] : f \in {g \in files : g.path[1] = asin /\ g.path[2] = "image"}}

\* process_product has run its loops on a directory no earlier product filled
FreshProductDone == pc = "meta" /\ ~\E m \in metadata : m.asin = asin

C28_MetadataCountsFiles ==
    pc \in {"next", "report", "done"} =>
        \A m \in metadata :
            m.images_count =
                Cardinality({f \in files : f.path[1] = m.asin /\ f.path[2] = "image"})

\* C29: in the summary run returns, successful_batches plus the length of
\* failed_batches is the number of chunks numbered resume_from or higher; the
\* failed chunks are among those, every chunk after a failed one was handed to
\* scrape_batch as well, and at any time the two counters together count the
\* scrape_batch calls made, so a skipped chunk is in neither.
C29_SummaryCounts ==
    /\ successful_batches + Len(failed_batches) = Len(ScrapedNums)
    /\ Range(failed_batches) \subseteq Range(ScrapedNums)
    /\ summary # <<>> =>
          /\ summary[1].successful_batches + Len(summary[1].failed_batches)
                = Len(ChunksDue)
          /\ summary[1].total_batches = Len(batch_files)
          /\ \A i \in 1..Len(summary[1].failed_batches) :
                /\ summary[1].failed_batches[i] >= b_args.resume_from
                /\ \A k \in (summary[1].failed_batches[i] + 1)..Len(batch_files) :
                      k \in Range(ScrapedNums)

C29_Witness ==
    /\ summary # <<>>
    /\ b_args.resume_from = 2
    /\ Len(batch_files) = 4
    /\ summary[1].failed_batches = <<2>>
    /\ summary[1].successful_batches = 2

\* C30 as claimed: in download_missing_images a product whose latest download
\* failed has no image file in its directory, and a later run has it among the
\* products needing images, so it is retried and not skipped as done.
C30_FailedDownloadRetried ==
    /\ \A a \in dm_failed : ~\E f \in dm_files : f.asin = a
    /\ (dm_run >= 2 /\ dm_pc \in {"download", "finished"}) =>
          dm_failed \subseteq Range(products_needing_images)

=============================================================================
